---- MODULE Spec2Model ----
(***************************************************************************)
(* A model of rwlock::RWLock (rw_lock.h), rwlock::SharedLock               *)
(* (shared_lock.h) and rwlock::UniqueLock (unique_lock.h).                 *)
(*                                                                         *)
(* One RWLock is shared by NumThreads threads.  The threads use it through *)
(* guard objects, which call its lock, try_lock, lock_shared,              *)
(* try_lock_shared and unlock, and they call unlock themselves on a lock   *)
(* that release() handed to them.  A guard object lives in one of          *)
(* NumGuards slots; a slot records the guard's class, the thread whose     *)
(* scope it lives in, and its two data members lock_ and owns_lock_.       *)
(*                                                                         *)
(* A blocking acquire either returns at once or, when the lock is held in  *)
(* a mode that excludes it, leaves the caller blocked inside               *)
(* pthread_rwlock_wrlock / pthread_rwlock_rdlock until a later step.       *)
(* A call through a null lock_ is undefined behaviour; the build           *)
(* dereferences address 0 and the process dies: crashed = TRUE, and        *)
(* nothing of the process is left.                                         *)
(***************************************************************************)
EXTENDS Integers, FiniteSets, Sequences, TLC

NumThreads == 2
NumGuards == 2
\* The platform's maximum number of simultaneous read locks (EAGAIN beyond).
ReaderCap == 2

Threads == 1..NumThreads
Guards == 1..NumGuards

NULL == "nullptr"
LK == "rwlock"

VARIABLES
    writers,   \* the threads that hold the lock for writing
    readers,   \* readers[t]: the number of read locks thread t holds
    guards,    \* guards[g]: the guard object in slot g
    pc,        \* pc[t]: where thread t is
    manual,    \* manual[t]: holds thread t has to unlock() by hand
    crashed,   \* the process died on a null dereference
    now,       \* Clock::now(), in polling intervals
    timer      \* timer[t]: timeout_time and end of sleep_for of t's timed call

vars == <<writers, readers, guards, pc, manual, crashed, now, timer>>

\* The clock and the timed calls, which the untimed operations leave alone.
clock == <<now, timer>>

\* ------------------------------------------------------------------ helpers

RECURSIVE SumOver(_, _)
SumOver(f, S) ==
    IF S = {} THEN 0
    ELSE LET x == CHOOSE y \in S : TRUE IN f[x] + SumOver(f, S \ {x})

TotalReaders == SumOver(readers, Threads)

Free == writers = {} /\ \A u \in Threads : readers[u] = 0

HeldBy(t) == t \in writers \/ readers[t] > 0

\* The number of holds thread t has on the lock, in either mode.
Holds(t) == (IF t \in writers THEN 1 ELSE 0) + readers[t]

Idle == [op |-> "idle", gs |-> {}, ctor |-> FALSE]

\* The timer of a thread that is in no timed call.  A timer keeps
\* timeout_time, the end of the sleep_for in progress and, as history, the
\* writers the last failed attempt found on the lock.
NoTimer == [until |-> 0, wake |-> 0, found |-> {}]

\* Some thread other than t is blocked inside pthread_rwlock_wrlock.
WriterBlocked(t) == \E u \in Threads \ {t} : pc[u].op = "lock"

Outcome(rc, w, r) == [rc |-> rc, w |-> w, r |-> r]

Same(rc) == Outcome(rc, writers, readers)

\* ------------------------------------------------------------------ RWLock

\* A lock() that waits for the writer alone, not for the readers.
RWLock_lock_IgnoresReaders(t) ==
    (IF writers = {} THEN {Outcome("OK", {t}, readers)} ELSE {})
    \cup (IF HeldBy(t) THEN {Same("EDEADLK")} ELSE {})

\* RWLock::lock(): pthread_rwlock_wrlock.  The set of ways the call can
\* return now; the empty set means the caller stays blocked.
RWLock_lock(t) ==
    (IF Free THEN {Outcome("OK", {t}, readers)} ELSE {})
    \cup (IF HeldBy(t) THEN {Same("EDEADLK")} ELSE {})

\* A try_lock() that looks at the writer alone, not at the readers.
RWLock_try_lock_IgnoresReaders(t) ==
    IF writers = {} THEN {Outcome("OK", {t}, readers)}
    ELSE IF t \in writers THEN {Same("EBUSY"), Same("EDEADLK")}
    ELSE {Same("EBUSY")}

\* RWLock::try_lock(): pthread_rwlock_trywrlock.
RWLock_try_lock(t) ==
    IF Free THEN {Outcome("OK", {t}, readers)}
    ELSE IF t \in writers THEN {Same("EBUSY"), Same("EDEADLK")}
    ELSE {Same("EBUSY")}

\* A lock_shared() that waits for the readers too, as a plain mutex would.
RWLock_lock_shared_Exclusive(t) ==
    IF t \in writers THEN {Same("EDEADLK")}
    ELSE IF ~Free THEN {}
    ELSE {Outcome("OK", writers, [readers EXCEPT ![t] = @ + 1])}

\* RWLock::lock_shared(): pthread_rwlock_rdlock.
RWLock_lock_shared(t) ==
    IF t \in writers THEN {Same("EDEADLK")}
    ELSE IF writers # {} THEN {}
    ELSE IF TotalReaders >= ReaderCap THEN {Same("EAGAIN")}
    ELSE {Outcome("OK", writers, [readers EXCEPT ![t] = @ + 1])}

\* A try_lock_shared() that does not look at the writer.
RWLock_try_lock_shared_IgnoresWriter(t) ==
    IF TotalReaders >= ReaderCap THEN {Same("EAGAIN")}
    ELSE {Outcome("OK", writers, [readers EXCEPT ![t] = @ + 1])}

\* RWLock::try_lock_shared(): pthread_rwlock_tryrdlock.
RWLock_try_lock_shared(t) ==
    IF t \in writers THEN {Same("EBUSY"), Same("EDEADLK")}
    ELSE IF writers # {} THEN {Same("EBUSY")}
    ELSE IF TotalReaders >= ReaderCap THEN {Same("EAGAIN")}
    ELSE {Outcome("OK", writers, [readers EXCEPT ![t] = @ + 1])}
         \cup (IF WriterBlocked(t) THEN {Same("EBUSY")} ELSE {})

\* An unlock that releases a write lock only and leaves a read lock held.
RWLock_unlock_WriterOnly(t) ==
    IF t \in writers THEN Outcome("OK", writers \ {t}, readers)
    ELSE Same("EPERM")

\* RWLock::unlock(): pthread_rwlock_unlock; rc EPERM gives false.
RWLock_unlock(t) ==
    IF t \in writers THEN Outcome("OK", writers \ {t}, readers)
    ELSE IF readers[t] > 0
    THEN Outcome("OK", writers, [readers EXCEPT ![t] = @ - 1])
    ELSE Same("EPERM")

UnlockResult(o) == o.rc # "EPERM"

\* The caller of lock() (exclusive) or lock_shared() has to wait.
MustWait(kind, t) == IF kind = "Shared" THEN writers # {} ELSE ~Free

\* ------------------------------------------------------------------ guards

\* A slot that holds no guard object.
Dead == [alive |-> FALSE, kind |-> "Shared", thr |-> {}, lock_ |-> NULL,
         owns_lock_ |-> FALSE]

\* The member initialisers lock_(&rwlock), owns_lock_(false).
Fresh(kind, t) == [alive |-> TRUE, kind |-> kind, thr |-> {t}, lock_ |-> LK,
                   owns_lock_ |-> FALSE]

Mine(t, g) == guards[g].alive /\ guards[g].thr = {t}

\* SharedLock::lock() after lock_->lock_shared() returned rc.
SharedLock_lock(gd, rc) ==
    IF rc \in {"EINVAL", "EDEADLK", "EAGAIN"}
    THEN [g |-> [gd EXCEPT !.lock_ = NULL], threw |-> TRUE]
    ELSE [g |-> [gd EXCEPT !.owns_lock_ = TRUE], threw |-> FALSE]

\* A UniqueLock::lock() that does not look at rc.
UniqueLock_lock_IgnoresRc(gd, rc) ==
    [g |-> [gd EXCEPT !.owns_lock_ = TRUE], threw |-> FALSE]

\* UniqueLock::lock() after lock_->lock() returned rc.
UniqueLock_lock(gd, rc) ==
    IF rc \in {"EINVAL", "EDEADLK"}
    THEN [g |-> [gd EXCEPT !.lock_ = NULL], threw |-> TRUE]
    ELSE [g |-> [gd EXCEPT !.owns_lock_ = TRUE], threw |-> FALSE]

\* The RWLock call SharedLock::lock() makes: lock_->lock_shared().
SharedLock_lock_call(t) == RWLock_lock_shared(t)

\* The RWLock call UniqueLock::lock() makes: lock_->lock().
UniqueLock_lock_call(t) == RWLock_lock(t)

\* The RWLock call SharedLock::try_lock() makes: lock_->try_lock().
SharedLock_try_lock_call(t) == RWLock_try_lock(t)

\* The RWLock call UniqueLock::try_lock() makes: lock_->try_lock().
UniqueLock_try_lock_call(t) == RWLock_try_lock(t)

\* SharedLock::try_lock() / UniqueLock::try_lock() after the call returned
\* rc (the two bodies are the same text).
Guard_try_lock(gd, rc) ==
    IF rc = "OK"
    THEN [g |-> [gd EXCEPT !.owns_lock_ = TRUE], threw |-> FALSE,
          ret |-> TRUE]
    ELSE IF rc = "EINVAL"
    THEN [g |-> [gd EXCEPT !.lock_ = NULL], threw |-> TRUE, ret |-> FALSE]
    ELSE [g |-> gd, threw |-> FALSE, ret |-> gd.owns_lock_]

\* A try constructor that treats the reader limit as an error.
SharedLock_try_ctor_ThrowsOnLimit(gd, rc) ==
    IF rc = "OK"
    THEN [g |-> [gd EXCEPT !.owns_lock_ = TRUE], threw |-> FALSE]
    ELSE IF rc = "EBUSY"
    THEN [g |-> [gd EXCEPT !.owns_lock_ = FALSE], threw |-> FALSE]
    ELSE [g |-> [gd EXCEPT !.lock_ = NULL], threw |-> TRUE]

\* SharedLock(RWLock&, std::try_to_lock_t) after try_lock_shared returned rc.
SharedLock_try_ctor(gd, rc) ==
    IF rc = "OK"
    THEN [g |-> [gd EXCEPT !.owns_lock_ = TRUE], threw |-> FALSE]
    ELSE IF rc \in {"EBUSY", "EAGAIN"}
    THEN [g |-> [gd EXCEPT !.owns_lock_ = FALSE], threw |-> FALSE]
    ELSE [g |-> [gd EXCEPT !.lock_ = NULL], threw |-> TRUE]

\* unlock(): owns_lock_ is cleared when lock_->unlock() returned true.
Guard_unlock(gd, ok) == IF ok THEN [gd EXCEPT !.owns_lock_ = FALSE] ELSE gd

\* What a move or release() leaves behind: lock_ = nullptr,
\* owns_lock_ = false.
Emptied(gd) == [gd EXCEPT !.lock_ = NULL, !.owns_lock_ = FALSE]

\* What the destination of a move holds: the source's two members.
TakeOver(gd, src) ==
    [gd EXCEPT !.lock_ = src.lock_, !.owns_lock_ = src.owns_lock_]

\* if (owns_lock_) { lock_->unlock(); } of the destructors and of
\* operator=(&&): does the guard call unlock()?
UnlocksOnDrop(gd) == gd.owns_lock_

\* lock() of either class: the call it makes and what it does with rc.
Guard_lock_call(kind, t) ==
    IF kind = "Shared" THEN SharedLock_lock_call(t) ELSE UniqueLock_lock_call(t)

Guard_lock(gd, rc) ==
    IF gd.kind = "Shared" THEN SharedLock_lock(gd, rc)
    ELSE UniqueLock_lock(gd, rc)

Guard_try_lock_call(kind, t) ==
    IF kind = "Shared" THEN SharedLock_try_lock_call(t)
    ELSE UniqueLock_try_lock_call(t)

\* ------------------------------------------------------------------ state

Init ==
    /\ writers = {}
    /\ readers = [t \in Threads |-> 0]
    /\ guards = [g \in Guards |-> Dead]
    /\ pc = [t \in Threads |-> Idle]
    /\ manual = [t \in Threads |-> 0]
    /\ crashed = FALSE
    /\ now = 0
    /\ timer = [t \in Threads |-> NoTimer]

Ready(t) == ~crashed /\ pc[t] = Idle

SetLock(o) == writers' = o.w /\ readers' = o.r

\* A new guard object is placed in the first empty slot.
NewSlot(g) == ~guards[g].alive /\ \A h \in Guards : h < g => guards[h].alive

\* A call through a null lock_: the process dies.
Crash ==
    /\ crashed' = TRUE
    /\ writers' = {}
    /\ readers' = [u \in Threads |-> 0]
    /\ guards' = [h \in Guards |-> Dead]
    /\ pc' = [u \in Threads |-> Idle]
    /\ manual' = [u \in Threads |-> 0]
    /\ timer' = [u \in Threads |-> NoTimer]
    /\ now' = now

\* ------------------------------------------------------------------ unlock by hand

\* A thread calls unlock() on the RWLock itself, for a hold it got from
\* release() ("If the lock was not acquired, do not call unlock()").
RawUnlock(t) ==
    /\ Ready(t)
    /\ manual[t] > 0
    /\ LET o == RWLock_unlock(t) IN
          /\ SetLock(o)
          /\ manual' = [manual EXCEPT ![t] = IF UnlockResult(o) THEN @ - 1 ELSE @]
    /\ UNCHANGED <<guards, pc, crashed>>
    /\ UNCHANGED clock

\* ------------------------------------------------------------------ guard operations

\* lock() returns or throws for the guard object gd of slot g.  A
\* constructor that throws leaves no object.
LockFinish(t, g, gd, ctor) ==
    \E o \in Guard_lock_call(gd.kind, t) :
       LET res == Guard_lock(gd, o.rc)
       IN /\ SetLock(o)
          /\ guards' = [guards EXCEPT ![g] =
                          IF res.threw /\ ctor THEN Dead ELSE res.g]

\* SharedLock(RWLock&) / UniqueLock(RWLock&): the members are initialised,
\* lock() is called and returns at once.
Construct(t, g, kind) ==
    /\ Ready(t)
    /\ NewSlot(g)
    /\ LockFinish(t, g, Fresh(kind, t), TRUE)
    /\ UNCHANGED <<pc, manual, crashed>>
    /\ UNCHANGED clock

\* The same constructors when lock() has to wait.
ConstructBlocks(t, g, kind) ==
    /\ Ready(t)
    /\ NewSlot(g)
    /\ MustWait(kind, t)
    /\ guards' = [guards EXCEPT ![g] = Fresh(kind, t)]
    /\ pc' = [pc EXCEPT ![t] =
                [op |-> IF kind = "Shared" THEN "lock_shared" ELSE "lock",
                 gs |-> {g}, ctor |-> TRUE]]
    /\ UNCHANGED <<writers, readers, manual, crashed>>
    /\ UNCHANGED clock

\* g.lock() on a live guard, returning at once.
Lock(t, g) ==
    /\ Ready(t)
    /\ Mine(t, g)
    /\ IF guards[g].lock_ = NULL
       THEN Crash
       ELSE /\ LockFinish(t, g, guards[g], FALSE)
            /\ UNCHANGED <<pc, manual, crashed>>
    /\ UNCHANGED clock

\* g.lock() on a live guard when it has to wait.
LockBlocks(t, g) ==
    /\ Ready(t)
    /\ Mine(t, g)
    /\ guards[g].lock_ # NULL
    /\ MustWait(guards[g].kind, t)
    /\ pc' = [pc EXCEPT ![t] =
                [op |-> IF guards[g].kind = "Shared" THEN "lock_shared"
                        ELSE "lock",
                 gs |-> {g}, ctor |-> FALSE]]
    /\ UNCHANGED <<writers, readers, guards, manual, crashed>>
    /\ UNCHANGED clock

\* The blocked lock() returns or throws.
LockReturn(t, g) ==
    /\ ~crashed
    /\ pc[t].op \in {"lock", "lock_shared"}
    /\ pc[t].gs = {g}
    /\ LockFinish(t, g, guards[g], pc[t].ctor)
    /\ pc' = [pc EXCEPT ![t] = Idle]
    /\ UNCHANGED <<manual, crashed>>
    /\ UNCHANGED clock

\* SharedLock(RWLock&, std::try_to_lock_t).
TryConstruct(t, g) ==
    /\ Ready(t)
    /\ NewSlot(g)
    /\ \E o \in RWLock_try_lock_shared(t) :
          LET res == SharedLock_try_ctor(Fresh("Shared", t), o.rc)
          IN /\ SetLock(o)
             /\ guards' = [guards EXCEPT ![g] =
                             IF res.threw THEN Dead ELSE res.g]
    /\ UNCHANGED <<pc, manual, crashed>>
    /\ UNCHANGED clock

\* g.try_lock().
TryLock(t, g) ==
    /\ Ready(t)
    /\ Mine(t, g)
    /\ IF guards[g].lock_ = NULL
       THEN Crash
       ELSE /\ \E o \in Guard_try_lock_call(guards[g].kind, t) :
                  /\ SetLock(o)
                  /\ guards' = [guards EXCEPT ![g] = Guard_try_lock(@, o.rc).g]
            /\ UNCHANGED <<pc, manual, crashed>>
    /\ UNCHANGED clock

\* g.unlock(): if (owns_lock_ && lock_->unlock()) owns_lock_ = false.
Unlock(t, g) ==
    /\ Ready(t)
    /\ Mine(t, g)
    /\ IF ~guards[g].owns_lock_
       THEN UNCHANGED vars
       ELSE IF guards[g].lock_ = NULL
       THEN Crash
       ELSE LET o == RWLock_unlock(t) IN
            /\ SetLock(o)
            /\ guards' = [guards EXCEPT ![g] = Guard_unlock(@, UnlockResult(o))]
            /\ UNCHANGED <<pc, manual, crashed>>
    /\ UNCHANGED clock

\* g.swap(h).
Swap(t, g, h) ==
    /\ Ready(t)
    /\ Mine(t, g) /\ Mine(t, h)
    /\ guards[g].kind = guards[h].kind
    /\ guards' = [guards EXCEPT ![g] = TakeOver(@, guards[h]),
                                ![h] = TakeOver(@, guards[g])]
    /\ UNCHANGED <<writers, readers, pc, manual, crashed>>
    /\ UNCHANGED clock

\* The pointer g.release() returns.
Released(gd) == gd.lock_

\* g.release(): the caller gets lock_ and, if the guard owned the lock,
\* the hold, which is then the caller's to unlock by hand.
Release(t, g) ==
    /\ Ready(t)
    /\ Mine(t, g)
    /\ guards' = [guards EXCEPT ![g] = Emptied(@)]
    /\ manual' = [manual EXCEPT ![t] =
                    IF guards[g].owns_lock_ /\ Released(guards[g]) # NULL
                    THEN @ + 1 ELSE @]
    /\ UNCHANGED <<writers, readers, pc, crashed>>
    /\ UNCHANGED clock

\* ~SharedLock() / ~UniqueLock().
Destroy(t, g) ==
    /\ Ready(t)
    /\ Mine(t, g)
    /\ IF ~UnlocksOnDrop(guards[g])
       THEN /\ guards' = [guards EXCEPT ![g] = Dead]
            /\ UNCHANGED <<writers, readers, pc, manual, crashed>>
       ELSE IF guards[g].lock_ = NULL
       THEN Crash
       ELSE /\ SetLock(RWLock_unlock(t))
            /\ guards' = [guards EXCEPT ![g] = Dead]
            /\ UNCHANGED <<pc, manual, crashed>>
    /\ UNCHANGED clock

\* SharedLock(SharedLock&&) / UniqueLock(UniqueLock&&): d is constructed
\* from s.
MoveConstruct(t, d, s) ==
    /\ Ready(t)
    /\ Mine(t, s)
    /\ NewSlot(d)
    /\ guards' = [guards EXCEPT
                    ![d] = TakeOver(Fresh(guards[s].kind, t), guards[s]),
                    ![s] = Emptied(@)]
    /\ UNCHANGED <<writers, readers, pc, manual, crashed>>
    /\ UNCHANGED clock

\* operator=(SharedLock&&) / operator=(UniqueLock&&): d = std::move(s).
MoveAssign(t, d, s) ==
    /\ Ready(t)
    /\ Mine(t, d) /\ Mine(t, s)
    /\ guards[d].kind = guards[s].kind
    /\ IF d = s
       THEN UNCHANGED vars
       ELSE IF ~UnlocksOnDrop(guards[d])
       THEN /\ guards' = [guards EXCEPT ![d] = TakeOver(@, guards[s]),
                                        ![s] = Emptied(@)]
            /\ UNCHANGED <<writers, readers, pc, manual, crashed>>
       ELSE IF guards[d].lock_ = NULL
       THEN Crash
       ELSE /\ SetLock(RWLock_unlock(t))
            /\ guards' = [guards EXCEPT ![d] = TakeOver(@, guards[s]),
                                        ![s] = Emptied(@)]
            /\ UNCHANGED <<pc, manual, crashed>>
    /\ UNCHANGED clock

\* ------------------------------------------------------------------ timed calls

MaxTime == 3

\* std::this_thread::sleep_for(0.01ms): one polling interval of the clock.
PollInterval == 1

\* The timeout_time a timed call can be given: a time point before, at or
\* after the present one.
Deadlines == 0..(MaxTime - 1)

\* The clock advances, whatever the threads are doing.
Tick ==
    /\ ~crashed
    /\ now < MaxTime
    /\ now' = now + 1
    /\ UNCHANGED <<writers, readers, guards, pc, manual, crashed, timer>>

\* Thread t is inside try_lock_until() of guard g.
InTimed(t, g) ==
    pc[t] = [op |-> "try_lock_until", gs |-> {g}, ctor |-> FALSE]

\* A loop condition that lets the deadline itself pass as not yet reached.
BeforeTimeout_Inclusive(clk, timeout_time) == clk <= timeout_time

\* while (Clock::now() < timeout_time).
BeforeTimeout(clk, timeout_time) == clk < timeout_time

\* sleep_for() blocks for at least the duration: the thread runs again
\* when the clock has reached the end of its sleep, or later.
Awake(t) == now >= timer[t].wake

\* No thread is inside a timed call.
NoTimedCall == \A u \in Threads : pc[u].op # "try_lock_until"

\* g.try_lock_until(d), and g.try_lock_for(d - now), which calls it: the
\* thread enters the loop.
TimedStart(t, g, d) ==
    /\ Ready(t)
    /\ Mine(t, g)
    /\ pc' = [pc EXCEPT ![t] =
                [op |-> "try_lock_until", gs |-> {g}, ctor |-> FALSE]]
    /\ timer' = [timer EXCEPT ![t] = [until |-> d, wake |-> 0, found |-> {}]]
    /\ UNCHANGED <<writers, readers, guards, manual, crashed, now>>

\* One turn of the loop: the clock is before timeout_time and try_lock()
\* is called; true is returned when it returns true, otherwise the thread
\* sleeps.
TimedPoll(t, g) ==
    /\ ~crashed
    /\ InTimed(t, g)
    /\ Awake(t)
    /\ BeforeTimeout(now, timer[t].until)
    /\ IF guards[g].lock_ = NULL
       THEN Crash
       ELSE /\ \E o \in Guard_try_lock_call(guards[g].kind, t) :
                  LET res == Guard_try_lock(guards[g], o.rc)
                  IN /\ SetLock(o)
                     /\ guards' = [guards EXCEPT ![g] = res.g]
                     /\ pc' = [pc EXCEPT ![t] = IF res.ret THEN Idle ELSE @]
                     /\ timer' = [timer EXCEPT ![t] =
                                    IF res.ret THEN NoTimer
                                    ELSE [@ EXCEPT !.wake = now + PollInterval,
                                                   !.found = writers]]
            /\ UNCHANGED <<manual, crashed, now>>

\* The loop ends: return false; // Timed out.
TimedOut(t, g) ==
    /\ ~crashed
    /\ InTimed(t, g)
    /\ Awake(t)
    /\ ~BeforeTimeout(now, timer[t].until)
    /\ pc' = [pc EXCEPT ![t] = Idle]
    /\ timer' = [timer EXCEPT ![t] = NoTimer]
    /\ UNCHANGED <<writers, readers, guards, manual, crashed, now>>

\* ------------------------------------------------------------------ specifications

\* Threads that use the RWLock through guards, and unlock by hand what
\* release() handed to them.
Next ==
    \/ \E t \in Threads, g \in Guards : \E k \in {"Shared", "Unique"} : Construct(t, g, k)
    \/ \E t \in Threads, g \in Guards : \E k \in {"Shared", "Unique"} : ConstructBlocks(t, g, k)
    \/ \E g \in Guards : \E t \in guards[g].thr : Lock(t, g)
    \/ \E g \in Guards : \E t \in guards[g].thr : LockBlocks(t, g)
    \/ \E g \in Guards : \E t \in guards[g].thr : LockReturn(t, g)
    \/ \E t \in Threads, g \in Guards : TryConstruct(t, g)
    \/ \E g \in Guards : \E t \in guards[g].thr : TryLock(t, g)
    \/ \E g \in Guards : \E t \in guards[g].thr : Unlock(t, g)
    \/ \E g \in Guards, h \in Guards : \E t \in guards[g].thr : Swap(t, g, h)
    \/ \E g \in Guards : \E t \in guards[g].thr : Release(t, g)
    \/ \E g \in Guards : \E t \in guards[g].thr : Destroy(t, g)
    \/ \E d \in Guards, s \in Guards : \E t \in guards[s].thr : MoveConstruct(t, d, s)
    \/ \E d \in Guards, s \in Guards : \E t \in guards[s].thr : MoveAssign(t, d, s)
    \/ \E t \in Threads : RawUnlock(t)

Spec == Init /\ [][Next]_vars

\* Threads that construct guards, make timed calls on them, one call at a
\* time, and unlock them, while the clock runs.
NextTimed ==
    \/ \E t \in Threads, g \in Guards : \E k \in {"Shared", "Unique"} : Construct(t, g, k)
    \/ \E g \in Guards : \E t \in guards[g].thr : \E d \in Deadlines : NoTimedCall /\ TimedStart(t, g, d)
    \/ \E g \in Guards : \E t \in guards[g].thr : TimedPoll(t, g)
    \/ \E g \in Guards : \E t \in guards[g].thr : TimedOut(t, g)
    \/ \E g \in Guards : \E t \in guards[g].thr : Unlock(t, g)
    \/ Tick

SpecTimed == Init /\ [][NextTimed]_vars

\* ------------------------------------------------------------------ properties

Blocked(t) == pc[t].op \in {"lock", "lock_shared"}

Owning(kind) ==
    {g \in Guards : guards[g].alive /\ guards[g].kind = kind
                    /\ guards[g].owns_lock_}

\* C1: in every reachable state the lock is held by zero or more readers
\* or by exactly one writer: never by two writers, never by a writer and a
\* reader.
C1_ReadersOrOneWriter ==
    /\ Cardinality(writers) <= 1
    /\ writers # {} => TotalReaders = 0

\* C1 witness: a writer holds the lock while another thread, which called
\* lock(), is kept waiting.
C1_Witness ==
    \E t \in writers : \E u \in Threads \ {t} : pc[u].op = "lock"

\* C2: at most one UniqueLock reports owns_lock() == true at any instant.
C2_OneOwningUniqueLock == Cardinality(Owning("Unique")) <= 1

\* C2 witness: a UniqueLock owns the lock while another thread is inside
\* the constructor of a second UniqueLock.
C2_Witness ==
    \E g \in Owning("Unique") : \E u \in Threads \ guards[g].thr :
       \E h \in Guards \ {g} :
          /\ pc[u] = [op |-> "lock", gs |-> {h}, ctor |-> TRUE]
          /\ guards[h].kind = "Unique"

\* C3: when no writer holds the lock or waits for it and the reader cap is
\* not reached, a shared acquisition by any thread (lock_shared(), and the
\* SharedLock constructor built on it) does not wait and succeeds, however
\* many readers hold the lock already, and it leaves their holds alone.
C3_ReadersDoNotBlockReaders ==
    \A t \in Threads :
       (/\ Ready(t)
        /\ writers = {}
        /\ \A u \in Threads : pc[u].op # "lock"
        /\ TotalReaders < ReaderCap)
       => /\ ~MustWait("Shared", t)
          /\ SharedLock_lock_call(t) # {}
          /\ \A o \in SharedLock_lock_call(t) :
                /\ o.rc = "OK"
                /\ o.w = {}
                /\ o.r = [readers EXCEPT ![t] = @ + 1]
                /\ ~SharedLock_lock(Fresh("Shared", t), o.rc).threw
                /\ SharedLock_lock(Fresh("Shared", t), o.rc).g.owns_lock_

\* C3 witness: every thread holds the lock in shared mode at the same time,
\* each through its own owning SharedLock.
C3_Witness ==
    /\ \A t \in Threads : \E g \in Owning("Shared") :
          guards[g].thr = {t} /\ readers[t] > 0
    /\ TotalReaders >= NumThreads
    /\ writers = {}

\* C4: while a UniqueLock owns the lock, no acquisition by another thread
\* succeeds: its blocking lock() and lock_shared() do not return, its
\* try_lock() and try_lock_shared() report EBUSY and change nothing, and
\* the guard calls built on them leave the guard not owning.
C4_UniqueLockExcludesOthers ==
    \A g \in Owning("Unique") : \A t \in Threads \ guards[g].thr :
       /\ RWLock_lock(t) = {}
       /\ RWLock_lock_shared(t) = {}
       /\ MustWait("Shared", t) /\ MustWait("Unique", t)
       /\ \A o \in RWLock_try_lock(t) \cup RWLock_try_lock_shared(t) :
             /\ o.rc = "EBUSY"
             /\ o.w = writers /\ o.r = readers
             /\ ~SharedLock_try_ctor(Fresh("Shared", t), o.rc).g.owns_lock_
             /\ ~SharedLock_try_ctor(Fresh("Shared", t), o.rc).threw
             /\ \A k \in {"Shared", "Unique"} :
                   ~Guard_try_lock(Fresh(k, t), o.rc).ret
       /\ \A h \in Guards : guards[h].alive /\ guards[h].thr = {t}
                            => ~guards[h].owns_lock_

\* C4 witness: a UniqueLock owns the lock, another thread waits in a
\* blocking acquire and has a second, live guard that does not own.
C4_Witness ==
    \E g \in Owning("Unique") : \E t \in Threads \ guards[g].thr :
       /\ Blocked(t)
       /\ guards[g].lock_ = LK

\* C5: a thread becomes the writer only in a step that starts with no
\* reader and no writer holding the lock, and it then sees a reader count
\* of 0.
C5_WriterEntersWhenReadersAreGone ==
    [][\A t \in Threads :
          (t \notin writers /\ t \in writers')
          => /\ TotalReaders = 0
             /\ writers = {}
             /\ TotalReaders' = 0]_vars

\* C5 witness: a thread waits in an exclusive lock() while another thread
\* holds the lock in shared mode.
C5_Witness ==
    \E t \in Threads : \E u \in Threads \ {t} :
       /\ pc[t].op = "lock"
       /\ readers[u] > 0

\* The guard's thread holds the lock in the guard's mode.
HeldInMode(gd) ==
    \E t \in gd.thr :
       IF gd.kind = "Shared" THEN readers[t] > 0 ELSE t \in writers

\* An owning guard that has its lock reference.
Bound(gd) == gd.owns_lock_ => gd.lock_ = LK

\* C6: for every guard, owns_lock() == true implies that its lock reference
\* is not empty and that its thread holds the lock in the guard's mode,
\* shared for a SharedLock and exclusive for a UniqueLock.
C6_OwnerHoldsInItsMode ==
    \A g \in Guards :
       (guards[g].alive /\ guards[g].owns_lock_)
       => guards[g].lock_ = LK /\ HeldInMode(guards[g])

\* C6, first half alone: an owning guard has a lock reference.
C6_OwnerHasReference ==
    \A g \in Guards : guards[g].alive => Bound(guards[g])

\* C6, second half alone: an owning guard with a lock reference holds the
\* lock in its mode.
C6_BoundOwnerHoldsInItsMode ==
    \A g \in Guards :
       (guards[g].alive /\ guards[g].owns_lock_ /\ guards[g].lock_ = LK)
       => HeldInMode(guards[g])

\* What C6 leaves true of the code: the thread of an owning guard holds the
\* lock in some mode.
C6_OwnerHoldsInSomeMode ==
    \A g \in Guards :
       (guards[g].alive /\ guards[g].owns_lock_)
       => \E t \in guards[g].thr : HeldBy(t)

\* A move from s to d: the source is left empty, the destination has the
\* source's members, and of the two destructors exactly one unlocks when
\* the source owned: the destination's, with a lock to unlock.
MovedOnce(t, d, s) ==
    /\ ~crashed'
    /\ guards'[s].alive /\ guards'[s].lock_ = NULL /\ ~guards'[s].owns_lock_
    /\ guards'[d].alive
    /\ guards'[d].owns_lock_ = guards[s].owns_lock_
    /\ guards'[d].lock_ = guards[s].lock_
    /\ ~UnlocksOnDrop(guards'[s])
    /\ guards[s].owns_lock_
       => /\ UnlocksOnDrop(guards'[d])
          /\ guards'[d].lock_ = LK
          /\ HeldBy(t)'
          /\ Holds(t)' = Holds(t) - (IF guards[d].alive /\ guards[d].owns_lock_
                                     THEN 1 ELSE 0)

\* C7: move construction and move assignment from a source guard transfer
\* ownership exactly once.
C7_MoveTransfersOnce ==
    [][\A d \in Guards : \A s \in Guards \ {d} : \A t \in guards[s].thr :
          (MoveConstruct(t, d, s) \/ MoveAssign(t, d, s))
          => MovedOnce(t, d, s)]_vars

\* C7 for sources and destinations that are Bound.
C7_MoveOfBoundGuards ==
    [][\A d \in Guards : \A s \in Guards \ {d} : \A t \in guards[s].thr :
          (/\ MoveConstruct(t, d, s) \/ MoveAssign(t, d, s)
           /\ Bound(guards[s]) /\ Bound(guards[d]))
          => MovedOnce(t, d, s)]_vars

\* Move assignment into an owning destination: one unlock for the
\* destination's lock, then the source's members; the source is emptied.
AssignedOver(t, d, s) ==
    /\ ~crashed'
    /\ Holds(t)' = Holds(t) - 1
    /\ \A u \in Threads \ {t} : Holds(u)' = Holds(u)
    /\ guards'[d].lock_ = guards[s].lock_
    /\ guards'[d].owns_lock_ = guards[s].owns_lock_
    /\ guards'[s].lock_ = NULL /\ ~guards'[s].owns_lock_
    /\ guards[s].owns_lock_ => HeldBy(t)'
    /\ UNCHANGED <<pc, manual>>

\* C8: move assignment into a destination that owns a lock releases the
\* destination's lock with exactly one unlock, takes over the source's
\* (reference, owns) pair and empties the source.
C8_AssignReleasesDestinationFirst ==
    [][\A d \in Guards : \A s \in Guards \ {d} : \A t \in guards[s].thr :
          (MoveAssign(t, d, s) /\ guards[d].owns_lock_)
          => AssignedOver(t, d, s)]_vars

\* C8 for a destination that is Bound.
C8_AssignOverBoundGuard ==
    [][\A d \in Guards : \A s \in Guards \ {d} : \A t \in guards[s].thr :
          (MoveAssign(t, d, s) /\ guards[d].owns_lock_ /\ Bound(guards[d]))
          => AssignedOver(t, d, s)]_vars

\* release() on an owning guard: the lock is as it was, the caller has the
\* lock's address and the hold, the guard is empty and its destructor will
\* not unlock, and unlock() on the address succeeds.
HandedOver(t, g) ==
    /\ ~crashed'
    /\ UNCHANGED <<writers, readers>>
    /\ Released(guards[g]) = LK
    /\ guards'[g].lock_ = NULL /\ ~guards'[g].owns_lock_
    /\ ~UnlocksOnDrop(guards'[g])
    /\ manual'[t] = manual[t] + 1
    /\ HeldBy(t)
    /\ UnlockResult(RWLock_unlock(t))

\* C9: release() on an owning guard leaves the lock held as before,
\* returns the reference to it and empties the guard; unlock() on the
\* returned reference then succeeds.
C9_ReleaseKeepsTheLock ==
    [][\A g \in Guards : \A t \in guards[g].thr :
          (Release(t, g) /\ guards[g].owns_lock_) => HandedOver(t, g)]_vars

\* C9 for a guard that is Bound.
C9_ReleaseOfBoundGuard ==
    [][\A g \in Guards : \A t \in guards[g].thr :
          (Release(t, g) /\ guards[g].owns_lock_ /\ Bound(guards[g]))
          => HandedOver(t, g)]_vars

\* unlock() on an owning guard: one hold of the thread is released and
\* owns_lock() is false; on a guard that does not own: nothing changes.
UnlockedOnce(t, g) ==
    IF guards[g].owns_lock_
    THEN /\ ~crashed'
         /\ Holds(t)' = Holds(t) - 1
         /\ \A u \in Threads \ {t} : Holds(u)' = Holds(u)
         /\ guards'[g] = [guards[g] EXCEPT !.owns_lock_ = FALSE]
         /\ \A h \in Guards \ {g} : guards'[h] = guards[h]
         /\ UNCHANGED <<pc, manual>>
    ELSE UNCHANGED vars

\* C10: guard unlock() releases the lock once and clears owns_lock() when
\* the guard owns, and is a no-op when it does not, so that a second
\* unlock() in a row changes nothing.
C10_UnlockOnceThenNoOp ==
    [][\A g \in Guards : \A t \in guards[g].thr :
          Unlock(t, g) => UnlockedOnce(t, g)]_vars

\* C10 for a guard that is Bound.
C10_UnlockOfBoundGuard ==
    [][\A g \in Guards : \A t \in guards[g].thr :
          (Unlock(t, g) /\ Bound(guards[g])) => UnlockedOnce(t, g)]_vars

\* C11: SharedLock::try_lock() acquires as the try constructor does: with
\* no writer on the lock (and none waiting, and the reader cap not reached)
\* it succeeds, also while other readers hold the lock, and it leaves the
\* lock held in shared mode: the outcomes of lock_->try_lock_shared().
C11_TryLockAcquiresShared ==
    \A g \in Guards : \A t \in guards[g].thr :
       (/\ Mine(t, g) /\ Ready(t)
        /\ guards[g].kind = "Shared"
        /\ guards[g].lock_ = LK /\ ~guards[g].owns_lock_
        /\ writers = {}
        /\ ~WriterBlocked(t)
        /\ TotalReaders < ReaderCap)
       => \A o \in SharedLock_try_lock_call(t) :
             /\ o \in RWLock_try_lock_shared(t)
             /\ o.rc = "OK"
             /\ o.w = {}
             /\ o.r = [readers EXCEPT ![t] = @ + 1]
             /\ Guard_try_lock(guards[g], o.rc).ret

\* C11, the first half alone: try_lock() succeeds while other readers hold
\* the lock.
C11_TryLockSucceedsBesideReaders ==
    \A g \in Guards : \A t \in guards[g].thr :
       (/\ Mine(t, g) /\ Ready(t)
        /\ guards[g].kind = "Shared"
        /\ guards[g].lock_ = LK /\ ~guards[g].owns_lock_
        /\ writers = {}
        /\ ~WriterBlocked(t)
        /\ TotalReaders < ReaderCap)
       => \A o \in SharedLock_try_lock_call(t) : o.rc = "OK"

\* C11, the second half alone: a SharedLock that owns leaves the lock
\* without a writer, so that other threads' shared acquisitions succeed.
C11_OwningSharedLockAdmitsReaders ==
    \A g \in Owning("Shared") : guards[g].lock_ = LK => writers = {}

\* C12: try-constructing a SharedLock gives an owning guard when
\* try_lock_shared() succeeds; a guard that does not own, still refers to
\* the lock and has left its holders alone when it reports EBUSY or EAGAIN;
\* and an error, with no lock reference kept, on any other result.
C12_TryConstructOutcomes ==
    \A t \in Threads :
       Ready(t) =>
          \A o \in RWLock_try_lock_shared(t) :
             LET res == SharedLock_try_ctor(Fresh("Shared", t), o.rc)
             IN IF o.rc = "OK"
                THEN /\ ~res.threw
                     /\ res.g.owns_lock_ /\ res.g.lock_ = LK
                     /\ o.w = writers
                     /\ o.r = [readers EXCEPT ![t] = @ + 1]
                ELSE IF o.rc \in {"EBUSY", "EAGAIN"}
                THEN /\ ~res.threw
                     /\ ~res.g.owns_lock_ /\ res.g.lock_ = LK
                     /\ o.w = writers /\ o.r = readers
                ELSE /\ res.threw
                     /\ ~res.g.owns_lock_ /\ res.g.lock_ = NULL
                     /\ o.w = writers /\ o.r = readers

\* C12 witness: a thread try-constructed a SharedLock while another thread
\* held the lock for writing: the guard is there, does not own and refers
\* to the lock, and its thread has no hold.
C12_Witness ==
    \E g \in Guards : \E t \in guards[g].thr : \E u \in writers \ {t} :
       /\ guards[g].alive /\ guards[g].kind = "Shared"
       /\ ~guards[g].owns_lock_ /\ guards[g].lock_ = LK
       /\ ~HeldBy(t)
       /\ \A h \in Guards \ {g} : guards[h].thr = {u}

\* The contention results of the acquire calls: Busy and ReaderLimitExceeded.
Contention == {"EBUSY", "EAGAIN"}

\* lock() and the blocking constructor of a guard of class kind do not
\* throw on a contention result.
LockSurvivesContention(kind, t) ==
    \A o \in Guard_lock_call(kind, t) :
       o.rc \in Contention => ~Guard_lock(Fresh(kind, t), o.rc).threw

\* try_lock(), which try_lock_for / try_lock_until poll, returns false on a
\* contention result and does not throw; the try constructor leaves a
\* guard that does not own.
TrySurvivesContention(kind, t) ==
    /\ \A o \in Guard_try_lock_call(kind, t) :
          o.rc \in Contention
          => /\ ~Guard_try_lock(Fresh(kind, t), o.rc).threw
             /\ ~Guard_try_lock(Fresh(kind, t), o.rc).ret
    /\ \A o \in RWLock_try_lock_shared(t) :
          o.rc \in Contention
          => /\ ~SharedLock_try_ctor(Fresh("Shared", t), o.rc).threw
             /\ ~SharedLock_try_ctor(Fresh("Shared", t), o.rc).g.owns_lock_

\* C13: whenever the acquire call under a guard operation reports EBUSY or
\* EAGAIN, the operation (blocking constructor, lock(), try constructor,
\* try_lock() and the timed calls that poll it) gives a status, false or a
\* guard that does not own, and raises no error.
C13_ContentionIsNeverFatal ==
    \A t \in Threads : \A kind \in {"Shared", "Unique"} :
       Ready(t) => LockSurvivesContention(kind, t)
                   /\ TrySurvivesContention(kind, t)

\* C13 without SharedLock::lock(): the other operations do not throw on
\* contention.
C13_ExceptSharedLockLock ==
    \A t \in Threads : \A kind \in {"Shared", "Unique"} :
       Ready(t) => LockSurvivesContention("Unique", t)
                   /\ TrySurvivesContention(kind, t)

\* unlock(), the destructors and operator=(&&) have no throw of their own:
\* a false from lock_->unlock() (EPERM) is not raised.
Guard_unlock_throws(ok) == FALSE

\* lock() on guard g raises EDEADLK.
LockPropagatesMisuse(t, g) ==
    \A o \in Guard_lock_call(guards[g].kind, t) :
       o.rc = "EDEADLK" => Guard_lock(guards[g], o.rc).threw

\* try_lock() on guard g raises EDEADLK.
TryLockPropagatesMisuse(t, g) ==
    \A o \in Guard_try_lock_call(guards[g].kind, t) :
       o.rc = "EDEADLK" => Guard_try_lock(guards[g], o.rc).threw

\* unlock(), destruction and move assignment of an owning guard g raise
\* the EPERM of the unlock they make.
UnlockPropagatesMisuse(t, g) ==
    guards[g].owns_lock_
    => \/ UnlockResult(RWLock_unlock(t))
       \/ Guard_unlock_throws(UnlockResult(RWLock_unlock(t)))

\* C14: no guard operation swallows a misuse error: when the call it makes
\* reports EDEADLK on acquire (lock, try_lock) or EPERM on release (unlock,
\* move assignment, destruction), the operation raises it instead of
\* returning false or going on.
C14_MisuseIsPropagated ==
    \A g \in Guards : \A t \in guards[g].thr :
       (Mine(t, g) /\ Ready(t) /\ guards[g].lock_ = LK)
       => /\ LockPropagatesMisuse(t, g)
          /\ TryLockPropagatesMisuse(t, g)
          /\ UnlockPropagatesMisuse(t, g)

\* C14 for lock() and for the releases alone.
C14_ExceptTryLock ==
    \A g \in Guards : \A t \in guards[g].thr :
       (Mine(t, g) /\ Ready(t) /\ guards[g].lock_ = LK)
       => LockPropagatesMisuse(t, g) /\ UnlockPropagatesMisuse(t, g)

\* A guard's thread calls unlock() on the lock only while it holds it, so
\* that no release of the model reports EPERM.
C14_NoReleaseReportsEPERM ==
    /\ \A g \in Guards : \A t \in guards[g].thr :
          (guards[g].alive /\ guards[g].owns_lock_ /\ guards[g].lock_ = LK)
          => UnlockResult(RWLock_unlock(t))
    /\ \A t \in Threads : manual[t] > 0 => UnlockResult(RWLock_unlock(t))

\* Another thread than t holds the lock for writing.
HeldByOther(t) == \E u \in writers : u # t

\* The timed call of t on g returns false in this step.
ReturnsFalse(t, g) == TimedOut(t, g)

\* The timed call of t on g returns true in this step.
ReturnsTrue(t, g) == TimedPoll(t, g) /\ ~crashed' /\ pc'[t] = Idle

\* C15, lower bound: a timed call returns false no sooner than its
\* deadline.
C15_NoSoonerThanDeadline ==
    [][\A g \in Guards : \A t \in guards[g].thr :
          ReturnsFalse(t, g) => now >= timer[t].until]_vars

\* C15, upper bound: on a lock that another thread holds for writing, a
\* timed call that made an attempt before its deadline returns false no
\* later than one polling interval after the deadline.
C15_NoLaterThanOneInterval ==
    [][\A g \in Guards : \A t \in guards[g].thr :
          (ReturnsFalse(t, g) /\ HeldByOther(t) /\ timer[t].wake > 0)
          => now <= timer[t].until + PollInterval]_vars

\* C15, on a held lock: while another thread holds the lock for writing,
\* no attempt of a timed call acquires it and the call does not return
\* true.
C15_FalseWhileHeld ==
    [][\A g \in Guards : \A t \in guards[g].thr :
          (TimedPoll(t, g) /\ guards[g].lock_ = LK /\ HeldByOther(t))
          => /\ InTimed(t, g)'
             /\ UNCHANGED <<writers, readers, guards>>]_vars

\* C15, true only on success: a timed call returns true only if its
\* attempt acquired the lock.
C15_TrueOnlyIfAcquired ==
    [][\A g \in Guards : \A t \in guards[g].thr :
          ReturnsTrue(t, g)
          => Holds(t)' = Holds(t) + 1 /\ guards'[g].owns_lock_]_vars

\* C15: try_lock_for / try_lock_until on a lock that another thread holds
\* exclusively returns false, no sooner than the deadline and no later than
\* one polling interval after it, and a timed call returns true only if
\* one of its try_lock() attempts acquired the lock.
C15_TimedCallOnHeldLock ==
    [][\A g \in Guards : \A t \in guards[g].thr :
          /\ ReturnsFalse(t, g) => now >= timer[t].until
          /\ (ReturnsFalse(t, g) /\ HeldByOther(t) /\ timer[t].wake > 0)
             => now <= timer[t].until + PollInterval
          /\ (TimedPoll(t, g) /\ guards[g].lock_ = LK /\ HeldByOther(t))
             => InTimed(t, g)' /\ UNCHANGED <<writers, readers, guards>>
          /\ ReturnsTrue(t, g)
             => Holds(t)' = Holds(t) + 1 /\ guards'[g].owns_lock_]_vars

\* The clock runs and a thread inside a timed call gets to run.
SpecTimedFair ==
    /\ SpecTimed
    /\ WF_vars(Tick)
    /\ \A t \in Threads :
          WF_vars(\E g \in Guards : TimedPoll(t, g) \/ TimedOut(t, g))

\* C15, termination: every timed call returns.
C15_TimedCallReturns ==
    \A t \in Threads : (pc[t].op = "try_lock_until") ~> (pc[t] = Idle)

\* The timed call of t on g is in progress and its last attempt found the
\* lock held for writing by another thread.
Waiting(t, g) ==
    /\ InTimed(t, g) /\ guards[g].lock_ = LK
    /\ timer[t].wake > 0
    /\ timer[t].found # {} /\ t \notin timer[t].found

\* C16: when the lock a pending timed call found held is released before
\* the call's deadline and nobody else takes it, the call acquires the lock
\* and returns true before the deadline: the clock does not reach the
\* deadline while the lock is free and the call still in progress.
C16_ReleasedBeforeDeadlineIsAcquired ==
    [][\A g \in Guards : \A t \in guards[g].thr :
          (Tick /\ Waiting(t, g) /\ Free
           /\ BeforeTimeout(now, timer[t].until))
          => BeforeTimeout(now', timer[t].until)]_vars

\* What C16 leaves true of the code: an attempt made before the deadline
\* on a free lock acquires it, for writing, and the call returns true.
C16_AttemptOnFreeLockSucceeds ==
    [][\A g \in Guards : \A t \in guards[g].thr :
          (TimedPoll(t, g) /\ guards[g].lock_ = LK /\ Free)
          => ReturnsTrue(t, g) /\ writers' = {t} /\ guards'[g].owns_lock_]_vars

\* ------------------------------------------------------------------ the tests' threads

\* reader_func and writer_func of the tests: a thread acquires once,
\* releases and ends.  pc[t].op is "reader" or "writer" before the
\* acquisition, "lock_shared" or "lock" while blocked in it, "reading" or
\* "writing" while the thread holds the lock, then "done"; "failed" when the
\* acquisition gave a result other than 0.  pc[t].ctor tells a thread that
\* uses a guard (SharedLock, UniqueLock: blocking) from one that calls the
\* RWLock itself (lock_shared(); try_lock() in a loop).
At(op, viaGuard) == [op |-> op, gs |-> {}, ctor |-> viaGuard]

ReaderThreads(f) == {t \in Threads : f[t].op = "reader"}

\* Every thread is a reader or a writer about to start; no more readers
\* than the platform lets hold the lock.
InitLive ==
    /\ writers = {}
    /\ readers = [t \in Threads |-> 0]
    /\ guards = [g \in Guards |-> Dead]
    /\ manual = [t \in Threads |-> 0]
    /\ crashed = FALSE
    /\ now = 0
    /\ timer = [t \in Threads |-> NoTimer]
    /\ pc \in [Threads -> {At(op, v) : op \in {"reader", "writer"},
                                       v \in BOOLEAN}]
    /\ Cardinality(ReaderThreads(pc)) <= ReaderCap

KindOf(op) ==
    IF op \in {"reader", "lock_shared", "reading"} THEN "Shared" ELSE "Unique"

\* The acquisition returns: result 0 and the thread is in its critical
\* section, or the guard's constructor throws / ASSERT_EQ(rc, 0) fails.
LiveAcquired(t, o) ==
    /\ SetLock(o)
    /\ pc' = [pc EXCEPT ![t] =
                At(IF o.rc # "OK"
                      \/ (pc[t].ctor
                          /\ Guard_lock(Fresh(KindOf(pc[t].op), t), o.rc).threw)
                   THEN "failed"
                   ELSE IF KindOf(pc[t].op) = "Shared" THEN "reading"
                   ELSE "writing", pc[t].ctor)]

\* SharedLock shared_lock(lock) / lock.lock_shared() / UniqueLock
\* unique_lock(lock): the blocking acquisition returns at once or blocks.
LiveEnter(t) ==
    /\ \/ pc[t].op = "reader"
       \/ pc[t].op = "writer" /\ pc[t].ctor
    /\ IF MustWait(KindOf(pc[t].op), t)
       THEN /\ pc' = [pc EXCEPT ![t] =
                        At(IF pc[t].op = "reader" THEN "lock_shared"
                           ELSE "lock", pc[t].ctor)]
            /\ UNCHANGED <<writers, readers>>
       ELSE \E o \in Guard_lock_call(KindOf(pc[t].op), t) : LiveAcquired(t, o)
    /\ UNCHANGED <<guards, manual, crashed, clock>>

\* The blocked acquisition returns.
LiveReturn(t) ==
    /\ pc[t].op \in {"lock", "lock_shared"}
    /\ \E o \in Guard_lock_call(KindOf(pc[t].op), t) : LiveAcquired(t, o)
    /\ UNCHANGED <<guards, manual, crashed, clock>>

\* while ((rc = lock.try_lock()) == EBUSY) yield(); ASSERT_EQ(rc, 0).
LiveSpin(t) ==
    /\ pc[t].op = "writer" /\ ~pc[t].ctor
    /\ \E o \in RWLock_try_lock(t) :
          IF o.rc = "EBUSY" THEN UNCHANGED <<writers, readers, pc>>
          ELSE LiveAcquired(t, o)
    /\ UNCHANGED <<guards, manual, crashed, clock>>

\* lock.unlock(), or the guard's destructor at the end of the thread
\* function.
LiveExit(t) ==
    /\ pc[t].op \in {"reading", "writing"}
    /\ SetLock(RWLock_unlock(t))
    /\ pc' = [pc EXCEPT ![t] = At("done", pc[t].ctor)]
    /\ UNCHANGED <<guards, manual, crashed, clock>>

LiveStep(t) == LiveEnter(t) \/ LiveReturn(t) \/ LiveSpin(t) \/ LiveExit(t)

NextLive ==
    \/ \E t \in Threads : LiveEnter(t)
    \/ \E t \in Threads : LiveReturn(t)
    \/ \E t \in Threads : LiveSpin(t)
    \/ \E t \in Threads : LiveExit(t)

\* The tests' threads under a scheduler that lets every thread run: a
\* thread that can take a step takes one.
SpecLive ==
    /\ InitLive
    /\ [][NextLive]_vars
    /\ \A t \in Threads : WF_vars(LiveStep(t))

\* C17: every reader and every writer, blocking or spinning on try_lock(),
\* acquires the lock with result 0, releases it and ends: no thread's
\* acquisition fails, none waits or spins for ever.
C17_EveryThreadAcquiresAndEnds ==
    /\ [](\A t \in Threads : pc[t].op # "failed")
    /\ \A t \in Threads : <>(pc[t].op = "done")

\* C17 witness: a writer spinning on try_lock() and a writer blocked in
\* lock() while a reader holds the lock.
C17_Witness ==
    \E r \in Threads, w \in Threads :
       /\ pc[r].op = "reading" /\ readers[r] > 0
       /\ pc[w].op \in {"writer", "lock"}
       /\ writers = {}

\* ------------------------------------------------------------------ C18

\* What try_lock() of guard g, called by its thread t, returns tells whether
\* this call acquired the lock: true exactly on result 0.
ReturnsOwnSuccess(t, g) ==
    \A o \in Guard_try_lock_call(guards[g].kind, t) :
       ~Guard_try_lock(guards[g], o.rc).threw
       => (Guard_try_lock(guards[g], o.rc).ret <=> o.rc = "OK")

\* C18: try_lock() of a guard returns true if and only if that call acquired
\* the lock, and false when the non-blocking acquire reports EBUSY or
\* EDEADLK, also on a guard whose owns_lock() is already true.
C18_TryLockReturnsItsOwnSuccess ==
    \A g \in Guards : \A t \in guards[g].thr :
       (Mine(t, g) /\ Ready(t) /\ guards[g].lock_ = LK)
       => ReturnsOwnSuccess(t, g)

\* C18, the case that fails: a guard that owns the lock it refers to, held
\* by its thread in the guard's mode, whose thread can call try_lock().
C18_OwningGuardTriesAgain ==
    \E g \in Guards : \E t \in guards[g].thr :
       /\ Mine(t, g) /\ Ready(t)
       /\ Bound(guards[g])
       /\ guards[g].owns_lock_
       /\ ~crashed

\* C18, what holds: on a guard that does not own the lock the returned value
\* is the success of the call.
C18_OnNonOwningGuard ==
    \A g \in Guards : \A t \in guards[g].thr :
       (Mine(t, g) /\ Ready(t) /\ guards[g].lock_ = LK
        /\ ~guards[g].owns_lock_)
       => ReturnsOwnSuccess(t, g)

\* C18, what the code returns: owns_lock() as it is after the call.
C18_ReturnsOwnsLock ==
    \A g \in Guards : \A t \in guards[g].thr :
       (Mine(t, g) /\ Ready(t) /\ guards[g].lock_ = LK)
       => \A o \in Guard_try_lock_call(guards[g].kind, t) :
             ~Guard_try_lock(guards[g], o.rc).threw
             => Guard_try_lock(guards[g], o.rc).ret
                = Guard_try_lock(guards[g], o.rc).g.owns_lock_

\* ------------------------------------------------------------------ C19

\* The holds on the lock: its reader count, and 1 for a writer.
HoldCount == TotalReaders + Cardinality(writers)

\* The guards whose owns_lock() is true.
OwningGuards == {g \in Guards : guards[g].alive /\ guards[g].owns_lock_}

\* The release() hand-offs not yet unlocked by hand.
HandOffs == SumOver(manual, Threads)

\* C19: after any sequence of guard calls on the lock, its holds are as many
\* as the owning guards plus the hand-offs of release() not yet unlocked; so
\* with every guard destroyed and every hand-off unlocked the lock is free.
C19_HoldsBalanceOwners ==
    ~crashed => HoldCount = Cardinality(OwningGuards) + HandOffs

\* C19, the case that fails first: an owning guard whose thread can call
\* lock() on it again.
C19_OwnerCanLockAgain ==
    \E g \in Guards : \E t \in guards[g].thr :
       /\ ~crashed
       /\ Mine(t, g) /\ Ready(t)
       /\ guards[g].kind = "Shared"
       /\ guards[g].owns_lock_ /\ guards[g].lock_ = LK
       /\ readers[t] > 0

\* C19, its last clause alone: no guard left, no hand-off left, lock free.
C19_FreeWhenAllGone ==
    (~crashed /\ OwningGuards = {} /\ HandOffs = 0
     /\ \A g \in Guards : ~guards[g].alive)
    => Free

\* C19, what holds: the lock is never held less often than the owning guards
\* and the hand-offs account for; a hold can only be left over.
C19_NoOwnerWithoutHold ==
    ~crashed => HoldCount >= Cardinality(OwningGuards) + HandOffs

\* ------------------------------------------------------------------ C20

\* Thread t is inside try_lock_until() on guard g, has made no attempt yet
\* and the clock has reached the deadline.
Expired(t, g) ==
    /\ InTimed(t, g)
    /\ timer[t].wake = 0
    /\ now >= timer[t].until

====
